---- MODULE Spec2Model ----
(***************************************************************************)
(* A model of redis-zset-ts: the TimeSeries<T> client of                   *)
(* src/src/time_series.rs over a Redis sorted set.                         *)
(*                                                                         *)
(* A Timestamp (an f64 number of seconds) is represented by its integer    *)
(* number of microseconds; a SystemTime by its integer number of           *)
(* nanoseconds since the Unix epoch.  Strings (keys, Redis arguments) are  *)
(* sequences of one-character strings.  A sorted-set member is the         *)
(* MessagePack byte sequence rmp_serde writes for the tuple (f64, T); the  *)
(* eight big-endian bytes of the f64 are kept as one element.              *)
(***************************************************************************)
EXTENDS Integers, Sequences, FiniteSets, TLC

\* ------------------------------------------------------------------ bounds
\* Stored timestamps are the multiples of half a second up to MaxTime halves.
MaxTime == 2
\* Longest namespace and longest series name of the key-derivation model.
MaxNsLen == 1
MaxNameLen == 2

VARIABLES
    store,   \* the Redis database: key -> sorted set, a set of <<score, member>>
    series,  \* client -> the TimeSeries it constructed: namespace, name, key, ty
    ret      \* the last call: op, cli, args, status, out

vars == <<store, series, ret>>

\* ----------------------------------------------------------------- domains
Times == {k * 500000 : k \in 0..MaxTime}
\* Query boundaries also reach below the epoch and above every stored point.
QueryTimes == Times \cup {-500000, (MaxTime + 1) * 500000}

IntV(n) == <<"int", <<n>>>>
StrV(cs) == <<"str", cs>>
\* A value whose Serialize implementation reports an error.
BadV == <<"bad", <<>>>>

\* Values of the test fixture (tests::test_get).
IntValues == {IntV(42), IntV(99)}

\* ------------------------------------------------------------- Timestamp
\* round() of n/d for n >= 0, d > 0: half away from zero.
Round(n, d) == (n + d \div 2) \div d

\* impl From<SystemTime> for Timestamp: st in nanoseconds; the result is
\* [ok |-> FALSE] where duration_since(UNIX_EPOCH) fails and expect() panics.
FromSystemTime(st) ==
    IF st < 0 THEN [ok |-> FALSE, ts |-> 0]
    ELSE [ok |-> TRUE, ts |-> Round(st, 1000)]

\* ------------------------------------------------- f64 to text and back
DigitChars == <<"0", "1", "2", "3", "4", "5", "6", "7", "8", "9">>

RECURSIVE Digits(_)
Digits(n) ==
    IF n < 10 THEN <<DigitChars[n + 1]>>
    ELSE Digits(n \div 10) \o Digits(n % 10)

\* The six fractional digits of f microseconds, most significant first.
Pad6(f) == [i \in 1..6 |-> Digits((f \div (10 ^ (6 - i))) % 10)[1]]

RECURSIVE TrimZeros(_)
TrimZeros(s) ==
    IF s # <<>> /\ s[Len(s)] = "0" THEN TrimZeros(SubSeq(s, 1, Len(s) - 1)) ELSE s

Abs(n) == IF n < 0 THEN 0 - n ELSE n

Sign(ts) == IF ts < 0 THEN <<"-">> ELSE <<>>

\* The fraction digits of f microseconds, without trailing zeros.
Fraction(f) == TrimZeros(Pad6(f))

DisplayAbs(ip, f) == Digits(ip) \o (IF f = 0 THEN <<>> ELSE <<".">> \o Fraction(f))

\* impl fmt::Display for Timestamp / f64: shortest decimal, no exponent,
\* no fraction for an integral value ("2", "0.5", "-0.5").
Display(ts) == Sign(ts) \o DisplayAbs(Abs(ts) \div 1000000, Abs(ts) % 1000000)

F64ArgAbs(ip, f) == Digits(ip) \o <<".">> \o (IF f = 0 THEN <<"0">> ELSE Fraction(f))

\* ToRedisArgs for f64: a decimal that always carries a fraction ("2.0").
F64Arg(ts) == Sign(ts) \o F64ArgAbs(Abs(ts) \div 1000000, Abs(ts) % 1000000)

IsDigit(c) == \E i \in 1..10 : DigitChars[i] = c
DigitVal(c) == (CHOOSE i \in 1..10 : DigitChars[i] = c) - 1

RECURSIVE ParseNat(_)
ParseNat(s) ==
    IF s = <<>> THEN 0
    ELSE 10 * ParseNat(SubSeq(s, 1, Len(s) - 1)) + DigitVal(s[Len(s)])

\* Index of the first "." of s, or 0.
DotAt(s) ==
    IF \E i \in 1..Len(s) : s[i] = "."
    THEN CHOOSE i \in 1..Len(s) : s[i] = "." /\ \A j \in 1..(i - 1) : s[j] # "."
    ELSE 0

\* The server's strtod on an unsigned decimal of integer part ip and
\* fraction fp, in microseconds.
ParseParts(ip, fp) ==
    IF /\ ip # <<>>
       /\ \A i \in 1..Len(ip) : IsDigit(ip[i])
       /\ \A i \in 1..Len(fp) : IsDigit(fp[i])
       /\ Len(fp) <= 6
    THEN [ok |-> TRUE,
          val |-> ParseNat(ip) * 1000000 + ParseNat(fp) * (10 ^ (6 - Len(fp)))]
    ELSE [ok |-> FALSE, val |-> 0]

SplitAt(s, d) ==
    IF d = 0 THEN ParseParts(s, <<>>)
    ELSE ParseParts(SubSeq(s, 1, d - 1), SubSeq(s, d + 1, Len(s)))

ParseUnsigned(s) == SplitAt(s, DotAt(s))

Negated(p) == [ok |-> p.ok, val |-> 0 - p.val]

ParseF64(s) ==
    IF s # <<>> /\ s[1] = "-" THEN Negated(ParseUnsigned(Tail(s)))
    ELSE ParseUnsigned(s)

\* ------------------------------------------------------ the sorted set
NegInf == <<"-", "i", "n", "f">>
PosInf == <<"+", "i", "n", "f">>

Bound(excl, p) == [ok |-> p.ok, kind |-> "num", val |-> p.val, excl |-> excl]

\* A score-range boundary as the server reads it: "-inf", "+inf", a number,
\* or "(" and a number for an exclusive bound.
ParseBound(s) ==
    IF s = NegInf THEN [ok |-> TRUE, kind |-> "-inf", val |-> 0, excl |-> FALSE]
    ELSE IF s = PosInf THEN [ok |-> TRUE, kind |-> "+inf", val |-> 0, excl |-> FALSE]
    ELSE IF s # <<>> /\ s[1] = "(" THEN Bound(TRUE, ParseF64(Tail(s)))
    ELSE Bound(FALSE, ParseF64(s))

AboveMin(score, min) ==
    CASE min.kind = "-inf" -> TRUE
      [] min.kind = "+inf" -> FALSE
      [] OTHER -> IF min.excl THEN score > min.val ELSE score >= min.val

BelowMax(score, max) ==
    CASE max.kind = "+inf" -> TRUE
      [] max.kind = "-inf" -> FALSE
      [] OTHER -> IF max.excl THEN score < max.val ELSE score <= max.val

InRange(score, min, max) == AboveMin(score, min) /\ BelowMax(score, max)

\* memcmp order of two members.
RECURSIVE LexLess(_, _)
LexLess(a, b) ==
    IF b = <<>> THEN FALSE
    ELSE IF a = <<>> THEN TRUE
    ELSE IF a[1] # b[1] THEN a[1] < b[1]
    ELSE LexLess(Tail(a), Tail(b))

\* The sorted set's order: by score, then by member bytes.
ZLess(p, q) == p[1] < q[1] \/ (p[1] = q[1] /\ LexLess(p[2], q[2]))

RECURSIVE ZSorted(_)
ZSortedFrom(z, m) == <<m>> \o ZSorted(z \ {m})
ZSorted(z) ==
    IF z = {} THEN <<>>
    ELSE ZSortedFrom(z, CHOOSE p \in z : \A q \in z \ {p} : ZLess(p, q))

\* A sorted set that keeps one member per score.
ZAddByScore(z, score, member) == {p \in z : p[1] # score} \cup {<<score, member>>}

\* ZADD key score member: a member is stored once, under its latest score.
ZAdd(z, score, member) == {p \in z : p[2] # member} \cup {<<score, member>>}

\* ZADD key score member [score member ...]
RECURSIVE ZAddMultiple(_, _)
ZAddMultiple(z, items) ==
    IF items = <<>> THEN z
    ELSE ZAddMultiple(ZAdd(z, items[1][1], items[1][2]), Tail(items))

Members(hit) == [i \in 1..Len(hit) |-> hit[i][2]]

RangeByScore(z, min, max) ==
    IF min.ok /\ max.ok
    THEN [ok |-> TRUE, members |-> Members(ZSorted({p \in z : InRange(p[1], min, max)}))]
    ELSE [ok |-> FALSE, members |-> <<>>]

\* ZRANGEBYSCORE key min max: the members, ascending.
ZRangeByScore(z, a1, a2) == RangeByScore(z, ParseBound(a1), ParseBound(a2))

RemByScore(z, min, max) ==
    IF min.ok /\ max.ok
    THEN [ok |-> TRUE, z |-> {p \in z : ~InRange(p[1], min, max)}]
    ELSE [ok |-> FALSE, z |-> z]

\* ZREMRANGEBYSCORE key min max
ZRemByScore(z, a1, a2) == RemByScore(z, ParseBound(a1), ParseBound(a2))

\* DEL of a key other than the series'.
DelOther(z) == z

\* DEL key
Del(z) == {}

\* ------------------------------------------------------- the entry codec
\* rmps::encode::to_vec_named(&(ts, val)): a two-element array (0x92), the
\* f64 (0xcb and its bytes), then the value: a positive fixint, or a fixstr
\* (0xa0 + length, then the characters).  A value whose Serialize fails
\* yields the encode error.
Encode(ts, val) ==
    CASE val[1] = "int" -> [ok |-> TRUE, bytes |-> <<146, 203, ts>> \o val[2]]
      [] val[1] = "str" -> [ok |-> TRUE, bytes |-> <<146, 203, ts, 160 + Len(val[2])>> \o val[2]]
      [] OTHER -> [ok |-> FALSE, bytes |-> <<>>]

DecodeValue(ty, ts, body) ==
    IF ty = "int" /\ Len(body) = 1 /\ body[1] <= 127
    THEN [ok |-> TRUE, ts |-> ts, value |-> IntV(body[1])]
    ELSE IF ty = "str" /\ body[1] >= 160 /\ body[1] <= 191
                      /\ Len(body) = 1 + (body[1] - 160)
    THEN [ok |-> TRUE, ts |-> ts, value |-> StrV(Tail(body))]
    ELSE [ok |-> FALSE, ts |-> 0, value |-> BadV]

\* rmps::decode::from_slice::<(f64, T)>(buf) for the reader's T.
Decode(ty, buf) ==
    IF Len(buf) >= 4 /\ buf[1] = 146 /\ buf[2] = 203
    THEN DecodeValue(ty, buf[3], SubSeq(buf, 4, Len(buf)))
    ELSE [ok |-> FALSE, ts |-> 0, value |-> BadV]

\* A score sent as a whole number of seconds.
ScoreWhole(ts) == (ts \div 1000000) * 1000000

\* The score the server stores for an f64 argument.
Score(ts) == ParseF64(F64Arg(ts)).val

\* ------------------------------------------------------------ TimeSeries
Alphabet == {"a", ":"}
StringsUpTo(n) == UNION {[1..k -> Alphabet] : k \in 0..n}
Namespaces == StringsUpTo(MaxNsLen)
Names == StringsUpTo(MaxNameLen)

\* A key that leaves the namespace out.
KeyOfName(namespace, name) == name

\* TimeSeries::with_uri: the key of the sorted set.
KeyOf(namespace, name) ==
    IF namespace = <<>> THEN name ELSE namespace \o <<":">> \o name

WithUri(namespace, name, ty) ==
    [namespace |-> namespace, name |-> name, key |-> KeyOf(namespace, name), ty |-> ty]

\* The boundary purge_before and get_range format: format!("({}", ts).
Exclusive(ts) == <<"(">> \o Display(ts)

\* The outcome of a call: its status, the sorted set it leaves, what it returns.
Outcome(status, z, out) == [status |-> status, z |-> z, out |-> out]

\* The call's Result from the command's reply r ("?" on the RedisResult).
Replied(z, r) ==
    IF r.ok THEN Outcome("ok", r.z, <<>>) ELSE Outcome("err_redis", z, <<>>)

\* purge_before with its bound sent as a plain, inclusive score.
PurgeThrough(z, ts) == Replied(z, ZRemByScore(z, NegInf, Display(ts)))

\* TimeSeries::purge_before
PurgeBefore(z, ts) == Replied(z, ZRemByScore(z, NegInf, Exclusive(ts)))

\* A call on the timestamp t converted from a SystemTime; the conversion
\* panics ("Time went backwards") before the epoch.
Converted(z, t, o) == IF t.ok THEN o ELSE Outcome("panic", z, <<>>)

\* TimeSeries::purge_older_than: SystemTime::now() - dur, converted.
PurgeOlderThan(z, now, dur) ==
    Converted(z, FromSystemTime(now - dur), PurgeBefore(z, FromSystemTime(now - dur).ts))

\* TimeSeries::delete
Delete(z) == Outcome("ok", Del(z), <<>>)

AddEncoded(z, ts, e) ==
    IF e.ok THEN Outcome("ok", ZAdd(z, Score(ts), e.bytes), <<>>)
    ELSE Outcome("err_encode", z, <<>>)

\* TimeSeries::add
Add(z, ts, val) == AddEncoded(z, ts, Encode(ts, val))

\* TimeSeries::add_now
AddNow(z, now, val) == Add(z, FromSystemTime(now).ts, val)

\* TimeSeries::add_value, of a (timestamp, value) tuple
AddValue(z, tv) == Add(z, tv[1], tv[2])

\* A batch item whose score is not the timestamp it encodes.
BatchItemWhole(tv) == <<ScoreWhole(tv[1]), Encode(tv[1], tv[2]).bytes>>

\* The closure of add_multiple: (v.timestamp.0, to_vec_named(..).unwrap()).
BatchItem(tv) == <<Score(tv[1]), Encode(tv[1], tv[2]).bytes>>

\* TimeSeries::add_multiple and add_multiple_values.  The server rejects
\* ZADD without a score and member.
AddMultiple(z, vals) ==
    IF \E i \in 1..Len(vals) : ~Encode(vals[i][1], vals[i][2]).ok
    THEN Outcome("panic", z, <<>>)
    ELSE IF vals = <<>> THEN Outcome("err_redis", z, <<>>)
    ELSE Outcome("ok", ZAddMultiple(z, [i \in 1..Len(vals) |-> BatchItem(vals[i])]), <<>>)

TimeValue(ts, value) == [timestamp |-> ts, value |-> value]

\* The map and collect of get_range_any over the decoded members d.
Collected(z, d) ==
    IF \E i \in 1..Len(d) : ~d[i].ok THEN Outcome("panic", z, <<>>)
    ELSE Outcome("ok", z, [i \in 1..Len(d) |-> TimeValue(d[i].ts, d[i].value)])

Decoded(ty, z, r) ==
    IF r.ok THEN Collected(z, [i \in 1..Len(r.members) |-> Decode(ty, r.members[i])])
    ELSE Outcome("err_redis", z, <<>>)

\* TimeSeries::get_range_any: from_slice(buf).unwrap() on every member.
GetRangeAny(ty, z, a1, a2) == Decoded(ty, z, ZRangeByScore(z, a1, a2))

\* get_range with its upper bound sent as a plain, inclusive score.
GetRangeClosed(ty, z, ts1, ts2) == GetRangeAny(ty, z, F64Arg(ts1), F64Arg(ts2))

\* TimeSeries::get_range
GetRange(ty, z, ts1, ts2) == GetRangeAny(ty, z, F64Arg(ts1), Exclusive(ts2))

\* get_from with an exclusive lower bound.
GetFromAfter(ty, z, ts) == GetRangeAny(ty, z, Exclusive(ts), PosInf)

\* TimeSeries::get_from
GetFrom(ty, z, ts) == GetRangeAny(ty, z, F64Arg(ts), PosInf)

\* TimeSeries::get_last
GetLast(ty, z, now, dur) ==
    Converted(z, FromSystemTime(now - dur), GetFrom(ty, z, FromSystemTime(now - dur).ts))

\* TimeSeries::get_all
GetAll(ty, z) == GetRangeAny(ty, z, NegInf, PosInf)

\* ------------------------------------------------------------- inputs
\* Slices of zero, one or two entries of E.
Batches(E) == {<<>>} \cup {<<x>> : x \in E} \cup {<<x, y>> : x, y \in E}

\* Clock readings in nanoseconds: just below and just above a microsecond
\* that is a stored timestamp.
Clock == {t * 1000 + 499 : t \in Times} \cup {t * 1000 - 500 : t \in Times \ {0}}
Durations == {0, 500000000, 2000000000}

\* Raw boundary expressions for get_range_any, among them the "2.0)" form
\* its doc comment names.
RawBounds ==
    {NegInf, PosInf, F64Arg(500000), Exclusive(500000), F64Arg(500000) \o <<")">>}

\* ------------------------------------------------------------- actions
\* A call through client c: one command on the sorted set under c's key.
Call(c, op, args, o) ==
    /\ store' = [store EXCEPT ![series[c].key] = o.z]
    /\ ret' = [op |-> op, cli |-> c, args |-> args, status |-> o.status, out |-> o.out]
    /\ UNCHANGED series

ZSetOf(c) == store[series[c].key]

purge_before(c, ts) == Call(c, "purge_before", <<ts>>, PurgeBefore(ZSetOf(c), ts))

purge_older_than(c, now, dur) ==
    Call(c, "purge_older_than", <<now, dur>>, PurgeOlderThan(ZSetOf(c), now, dur))

delete(c) == Call(c, "delete", <<>>, Delete(ZSetOf(c)))

add(c, ts, val) == Call(c, "add", <<ts, val>>, Add(ZSetOf(c), ts, val))

add_now(c, now, val) == Call(c, "add_now", <<now, val>>, AddNow(ZSetOf(c), now, val))

add_value(c, tv) == Call(c, "add_value", tv, AddValue(ZSetOf(c), tv))

add_multiple(c, vals) == Call(c, "add_multiple", vals, AddMultiple(ZSetOf(c), vals))

add_multiple_values(c, vals) ==
    Call(c, "add_multiple_values", vals, AddMultiple(ZSetOf(c), vals))

get_range_any(c, a1, a2) ==
    Call(c, "get_range_any", <<a1, a2>>, GetRangeAny(series[c].ty, ZSetOf(c), a1, a2))

get_range(c, ts1, ts2) ==
    Call(c, "get_range", <<ts1, ts2>>, GetRange(series[c].ty, ZSetOf(c), ts1, ts2))

get_from(c, ts) == Call(c, "get_from", <<ts>>, GetFrom(series[c].ty, ZSetOf(c), ts))

get_last(c, now, dur) ==
    Call(c, "get_last", <<now, dur>>, GetLast(series[c].ty, ZSetOf(c), now, dur))

get_all(c) == Call(c, "get_all", <<>>, GetAll(series[c].ty, ZSetOf(c)))

\* ------------------------------------------------------ specifications
NoCall == [op |-> "new", cli |-> "c1", args |-> <<>>, status |-> "ok", out |-> <<>>]

\* The state after the clients of S were constructed, on an empty database.
Constructed(S) ==
    /\ series \in S
    /\ store = [k \in {series[c].key : c \in DOMAIN series} |-> {}]
    /\ ret = NoCall

\* One series of integers: single and batched writes, purges and the reads
\* by timestamp.
Init == Constructed([{"c1"} -> {WithUri(<<"a">>, <<"a">>, "int")}])

Next ==
    \/ \E c \in DOMAIN series, ts \in QueryTimes : purge_before(c, ts)
    \/ \E c \in DOMAIN series : delete(c)
    \/ \E c \in DOMAIN series, ts \in Times, val \in IntValues \cup {BadV} : add(c, ts, val)
    \/ \E c \in DOMAIN series, tv \in Times \X IntValues : add_value(c, tv)
    \/ \E c \in DOMAIN series, vals \in Batches(Times \X {IntV(42)}) : add_multiple(c, vals)
    \/ \E c \in DOMAIN series, ts1, ts2 \in QueryTimes : get_range(c, ts1, ts2)
    \/ \E c \in DOMAIN series, ts \in QueryTimes : get_from(c, ts)
    \/ \E c \in DOMAIN series : get_all(c)

Spec == Init /\ [][Next]_vars

\* Two clients of one series: every write path, one value and one whose
\* encoding fails.
InitWrites == Constructed([{"c1", "c2"} -> {WithUri(<<"a">>, <<"a">>, "int")}])

WriteEntries == Times \X {IntV(42), BadV}

NextWrites ==
    \/ \E c \in DOMAIN series, ts \in QueryTimes : purge_before(c, ts)
    \/ \E c \in DOMAIN series, now \in Clock, dur \in Durations :
          purge_older_than(c, now, dur)
    \/ \E c \in DOMAIN series : delete(c)
    \/ \E c \in DOMAIN series, tv \in WriteEntries : add(c, tv[1], tv[2])
    \/ \E c \in DOMAIN series, now \in Clock, val \in {IntV(42), BadV} : add_now(c, now, val)
    \/ \E c \in DOMAIN series, tv \in WriteEntries : add_value(c, tv)
    \/ \E c \in DOMAIN series, vals \in Batches(WriteEntries) : add_multiple(c, vals)
    \/ \E c \in DOMAIN series, vals \in Batches(WriteEntries) : add_multiple_values(c, vals)

SpecWrites == InitWrites /\ [][NextWrites]_vars

\* Two clients of one key with different value types: TimeSeries<i32> and
\* TimeSeries<String>.
InitMixed ==
    Constructed({[c \in {"c1", "c2"} |->
                    WithUri(<<"a">>, <<"a">>, IF c = "c1" THEN "int" ELSE "str")]})

ValueOf(ty) == IF ty = "int" THEN IntV(42) ELSE StrV(<<120>>)

NextMixed ==
    \/ \E c \in DOMAIN series : delete(c)
    \/ \E c \in DOMAIN series, ts \in Times : add(c, ts, ValueOf(series[c].ty))
    \/ \E c \in DOMAIN series, a1, a2 \in RawBounds : get_range_any(c, a1, a2)
    \/ \E c \in DOMAIN series, ts1, ts2 \in Times : get_range(c, ts1, ts2)
    \/ \E c \in DOMAIN series, ts \in Times : get_from(c, ts)
    \/ \E c \in DOMAIN series, now \in Clock, dur \in {0, 2000000000} :
          get_last(c, now, dur)
    \/ \E c \in DOMAIN series : get_all(c)

SpecMixed == InitMixed /\ [][NextMixed]_vars

\* Two clients constructed with any namespace and name.
InitKeys ==
    Constructed([{"c1", "c2"} -> {WithUri(ns, n, "int") : ns \in Namespaces, n \in Names}])

NextKeys ==
    \/ \E c \in DOMAIN series : purge_before(c, 500000)
    \/ \E c \in DOMAIN series : delete(c)
    \/ \E c \in DOMAIN series : add(c, 0, IntV(42))

SpecKeys == InitKeys /\ [][NextKeys]_vars

\* ------------------------------------------------------------- claims
\* The (timestamp, value) a stored integer member carries in its payload.
EntryOf(p) == TimeValue(p[2][3], IntV(p[2][4]))

\* The sorted set the last call went to.
Called == store[series[ret.cli].key]

Elements(seq) == {seq[i] : i \in 1..Len(seq)}

Ascending(seq) ==
    \A i, j \in 1..Len(seq) : i < j => seq[i].timestamp <= seq[j].timestamp

\* seq lists each element of S once and nothing else.
Lists(seq, S) == Elements(seq) = S /\ Len(seq) = Cardinality(S)

\* C1: get_range(a, b) returns exactly the stored entries with
\* a <= timestamp < b, each once, in non-decreasing timestamp order.
C1_GetRangeHalfOpen ==
    ret.op = "get_range" =>
        /\ ret.status = "ok"
        /\ Lists(ret.out, {EntryOf(p) : p \in {q \in Called :
                     ret.args[1] <= q[2][3] /\ q[2][3] < ret.args[2]}})
        /\ Ascending(ret.out)

\* get_range returned an entry at its lower bound and another one, while the
\* series holds an entry at its upper bound.
C1_Witness ==
    /\ ret.op = "get_range"
    /\ Len(ret.out) >= 2
    /\ ret.out[1].timestamp = ret.args[1]
    /\ \E p \in Called : p[2][3] = ret.args[2]

\* C2: purge_before(t) succeeds and leaves exactly the entries the series
\* held whose timestamp is >= t.
C2_PurgeBefore ==
    [][ret'.op = "purge_before" =>
          /\ ret'.status = "ok"
          /\ store'[series[ret'.cli].key] =
                {p \in store[series[ret'.cli].key] : p[2][3] >= ret'.args[1]}]_vars

\* After purge_before(t) the series holds an entry at exactly t and a later one.
C2_Witness ==
    /\ ret.op = "purge_before"
    /\ \E p, q \in Called : p[2][3] = ret.args[1] /\ q[2][3] > ret.args[1]

\* C3 as stated: after add(t, v), get_range(t, t + e) returns exactly the one
\* entry (t, v), whatever the series holds.
C3_AsStated ==
    (ret.op = "add" /\ ret.status = "ok") =>
        \A e \in {500000, 1000000} :
            GetRange("int", Called, ret.args[1], ret.args[1] + e) =
                Outcome("ok", Called, <<TimeValue(ret.args[1], ret.args[2])>>)

\* C3 amended: after add(t, v), get_range(t, t2) for any t2 > t returns
\* (t, v) once, among exactly the stored entries with t <= timestamp < t2;
\* it is the only entry returned exactly when no other entry is stored there.
C3_AddThenGetRange ==
    (ret.op = "add" /\ ret.status = "ok") =>
        \A t2 \in {t \in QueryTimes : t > ret.args[1]} :
            LET o == GetRange("int", Called, ret.args[1], t2)
                others == {p \in Called : /\ ret.args[1] <= p[2][3] /\ p[2][3] < t2
                                          /\ EntryOf(p) # TimeValue(ret.args[1], ret.args[2])}
            IN  /\ o.status = "ok"
                /\ Lists(o.out, {TimeValue(ret.args[1], ret.args[2])}
                                   \cup {EntryOf(p) : p \in others})
                /\ (Len(o.out) = 1) = (others = {})

\* add(t, v) succeeded on a series that holds another value at t.
C3_Witness ==
    /\ ret.op = "add"
    /\ ret.status = "ok"
    /\ \E p \in Called : p[2][3] = ret.args[1] /\ IntV(p[2][4]) # ret.args[2]

\* C6: after add(t, v) one stored point carries (t, v) and adding (t, v)
\* again changes nothing; adding another value at t keeps both points, and
\* get_range and get_all over t return both.
C6_AddIdempotent ==
    (ret.op = "add" /\ ret.status = "ok") =>
        /\ Cardinality({p \in Called : EntryOf(p) = TimeValue(ret.args[1], ret.args[2])}) = 1
        /\ Add(Called, ret.args[1], ret.args[2]) = Outcome("ok", Called, <<>>)
        /\ \A v \in IntValues \ {ret.args[2]} :
              LET z == Add(Called, ret.args[1], v).z
              IN  /\ Called \subseteq z
                  /\ {TimeValue(ret.args[1], ret.args[2]), TimeValue(ret.args[1], v)}
                        \subseteq Elements(GetAll("int", z).out)
                  /\ {TimeValue(ret.args[1], ret.args[2]), TimeValue(ret.args[1], v)}
                        \subseteq Elements(GetRange("int", z, ret.args[1],
                                                    ret.args[1] + 500000).out)

\* add(t, v) was called on a series that already held (t, v) and holds
\* nothing else at t.
C6_Witness ==
    /\ ret.op = "add"
    /\ ret.status = "ok"
    /\ Cardinality(Called) >= 2
    /\ \A p \in Called : p[2][3] = ret.args[1] => IntV(p[2][4]) = ret.args[2]

\* C7: after delete(), get_all() returns the empty sequence, and after a
\* following add(t, v) it returns exactly (t, v).
C7_DeleteThenReuse ==
    ret.op = "delete" =>
        /\ ret.status = "ok"
        /\ GetAll("int", Called) = Outcome("ok", Called, <<>>)
        /\ \A t \in Times, v \in IntValues :
              GetAll("int", Add(Called, t, v).z).out = <<TimeValue(t, v)>>

\* The last call was delete().
C7_Witness == ret.op = "delete" /\ ret.status = "ok" /\ Called = {}

\* C9: get_from(ts) returns exactly the stored entries with timestamp >= ts,
\* get_all() every stored entry, both in ascending timestamp order, and
\* neither changes the series.
C9_GetFromGetAll ==
    [][ret'.op \in {"get_from", "get_all"} =>
          /\ ret'.status = "ok"
          /\ store' = store
          /\ Lists(ret'.out, {EntryOf(p) : p \in {q \in store[series[ret'.cli].key] :
                       ret'.op = "get_from" => q[2][3] >= ret'.args[1]}})
          /\ Ascending(ret'.out)]_vars

\* get_from(ts) returned an entry at ts and a later one and left out an
\* earlier one.
C9_Witness ==
    /\ ret.op = "get_from"
    /\ Len(ret.out) >= 2
    /\ ret.out[1].timestamp = ret.args[1]
    /\ \E p \in Called : p[2][3] < ret.args[1]

\* ---------------------------------------------------- claims on failures
\* The stored member p lies in the score range the last read asked for.
Queried(p) ==
    CASE ret.op = "get_all" -> TRUE
      [] ret.op = "get_from" -> p[1] >= ret.args[1]
      [] ret.op = "get_range" -> ret.args[1] <= p[1] /\ p[1] < ret.args[2]
      [] ret.op = "get_last" ->
            ret.args[1] >= ret.args[2] /\ p[1] * 1000 + 500 > ret.args[1] - ret.args[2]
      [] ret.op = "get_range_any" ->
            /\ ret.args[1] \in {NegInf, <<"0", ".", "5">>} \/ ret.args[1] = <<"(", "0", ".", "5">>
            /\ ret.args[2] \in {PosInf, <<"0", ".", "5">>} \/ ret.args[2] = <<"(", "0", ".", "5">>
            /\ ret.args[1] = <<"0", ".", "5">> => p[1] >= 500000
            /\ ret.args[1] = <<"(", "0", ".", "5">> => p[1] > 500000
            /\ ret.args[2] = <<"0", ".", "5">> => p[1] <= 500000
            /\ ret.args[2] = <<"(", "0", ".", "5">> => p[1] < 500000
      [] OTHER -> FALSE

\* The value bytes of member p are not those of a value of type ty.
Mismatched(ty, p) == (ty = "int") = (p[2][4] >= 160)

\* C4: a read that meets a stored entry it cannot decode returns the decode
\* error, and no entries.
C4_DecodeErrorReturned ==
    (\E p \in Called : Queried(p) /\ Mismatched(series[ret.cli].ty, p)) =>
        (ret.status = "err_decode" /\ ret.out = <<>>)

\* The value handed to the last add, or one of its batch, fails to encode.
Rejected(r) ==
    \/ r.op = "add" /\ r.args[2] = BadV
    \/ /\ r.op \in {"add_multiple", "add_multiple_values"}
       /\ \E i \in 1..Len(r.args) : r.args[i][2] = BadV

\* C5: an add, add_multiple or add_multiple_values whose value the codec
\* rejects returns the encode error and writes nothing.
C5_EncodeErrorReturned ==
    [][Rejected(ret') => (ret'.status = "err_encode" /\ store' = store)]_vars

\* C8: every stored member's score is the timestamp its payload encodes.
C8_ScoreIsPayloadTimestamp ==
    \A k \in DOMAIN store : \A p \in store[k] : p[1] = p[2][3]

\* The second client added a batch, and the series holds two points, one of
\* them at a fraction of a second.
C8_Witness ==
    /\ ret.op = "add_multiple"
    /\ ret.cli = "c2"
    /\ ret.status = "ok"
    /\ Len(ret.args) = 2
    /\ Cardinality(Called) >= 2
    /\ \E p \in Called : p[1] = 500000

\* ------------------------------------------------ claims on the series key
Pair(c) == <<series[c].namespace, series[c].name>>

HasColon(s) == \E i \in 1..Len(s) : s[i] = ":"

\* A call through the client of ret' leaves what client d reads as it was.
Untouched(d) ==
    /\ series[d].key # series[ret'.cli].key
    /\ GetAll("int", store'[series[d].key]) = GetAll("int", store[series[d].key])

\* C10 as stated: clients constructed with different (namespace, name) have
\* different keys, and a call through one changes nothing the other reads.
C10_AsStated ==
    [][\A d \in DOMAIN series : Pair(d) # Pair(ret'.cli) => Untouched(d)]_vars

\* C10 amended: the same, for names that contain no ':' (the namespaces may
\* be empty or contain ':').
C10_DistinctKeys ==
    [][\A d \in DOMAIN series :
          (/\ Pair(d) # Pair(ret'.cli)
           /\ ~HasColon(series[d].name)
           /\ ~HasColon(series[ret'.cli].name)) => Untouched(d)]_vars

\* A client with an empty namespace added a point; the other client, whose
\* namespace is ":" and whose name is the same, still reads nothing.
C10_Witness ==
    /\ ret.op = "add"
    /\ ret.cli = "c1"
    /\ series["c1"].namespace = <<>>
    /\ series["c2"].namespace = <<":">>
    /\ series["c1"].name = <<"a">>
    /\ series["c2"].name = <<"a">>
    /\ store[series["c1"].key] # {}
    /\ store[series["c2"].key] = {}

====
